---- MODULE Spec2Model ----
(***************************************************************************)
(* The native-messaging relay of gmail-mcp-extension/mcp-server:           *)
(* MCPBridge (native-host-mcp.py), its main thread (run, cleanup), its     *)
(* daemon reader thread (read_mcp_output), the child process and the two   *)
(* host-facing streams.                                                    *)
(*                                                                         *)
(* Spec and FairSpec are the relay from its construction on. AllocSpec     *)
(* calls get_next_id on its own, CodecSpec runs the host envelope's        *)
(* encoder against its decoder byte by byte, and HandlerSpec runs the two  *)
(* message handlers on a correlation table that holds entries, which the   *)
(* relay itself never comes to have.                                       *)
(***************************************************************************)
EXTENDS Integers, Sequences, FiniteSets, TLC

\* ------------------------------------------------------------------ bounds
\* Lines the pipe from the child's stdout holds before the child's write
\* blocks.
MaxPipeLines == 2

\* Calls of get_next_id made on one MCPBridge.
MaxCalls == 100

\* Bytes of a short payload, and frames written to a stream and not yet read.
MaxPayloadLen == 2
MaxInFlight == 2

\* ------------------------------------------------------------- value sets
\* Python's None, also what dict.get returns for a missing key.
None == "None"

\* "id" of a host message: missing, a falsy id (0 or ""), a usual id.
HostIds == {None, "", "7"}

\* The action names handle_chrome_message knows besides ping.
RecognizedActions == {"getEmails", "getEmailContent", "composeReply", "sendEmail"}

\* "action" of a host message: missing, ping, recognized, unrecognized.
HostActions == {None, "ping", "bogusAction"} \cup RecognizedActions

\* "response" of a host message: missing, present but falsy, present.
HostResponses == {None, "", "data"}

\* The JSON objects the host can send.
HostMessages == [id : HostIds, action : HostActions, response : HostResponses]

\* What a host frame's delivered bytes decode to when they are no JSON
\* object: bytes json.loads rejects, or a JSON value without .get.
BadPayloads == {"invalid_json", "not_an_object"}

\* A line of the child: a JSON object (id 0 stands for "no id"), a JSON
\* value that is no object, or text json.loads rejects.
ChildIds == 0..2
ChildBodies == {"result", "error", "neither"}
ChildLines == [kind : {"object"}, id : ChildIds, body : ChildBodies]
                \cup [kind : {"not_an_object", "invalid_json"}, id : {0}, body : {"neither"}]

\* Bytes of a payload (the UTF-8 of json.dumps): some of its punctuation.
PayloadBytes == {123, 125}

\* Payload lengths around the point where the length no longer fits the
\* first byte of the prefix.
LongPayloadLens == {255, 256, 257}

\* The payloads framed: every short one, and long ones of blanks.
Payloads ==
    UNION {[1..n -> PayloadBytes] : n \in 1..MaxPayloadLen}
        \cup {[i \in 1..n |-> 32] : n \in LongPayloadLens}

\* The tables handle_mcp_message and handle_chrome_message can be called
\* on: up to two entries, under external ids the host may or may not use.
StoredIds == {"7", "8"}
Tables == UNION {[K -> [chrome_id : StoredIds]] : K \in SUBSET {1, 2}}

\* Python truthiness of a value of a host message.
Truthy(v) == v \notin {None, ""}

VARIABLES
    pc,                \* where each thread is: "main" in run / cleanup,
                       \* "reader" in read_mcp_output
    sending,           \* the message each thread's send_to_chrome is writing
    mainMsg,           \* the message handle_chrome_message is called with
    readerLine,        \* the line read_mcp_output has just read
    mcp_process,       \* self.mcp_process: None or the Popen handle
    pending_requests,  \* self.pending_requests: internal id -> [chrome_id]
    request_counter,   \* self.request_counter
    childState,        \* the child process: "none", "running", "exited"
    childStdout,       \* the child's end of its stdout pipe: "none", "open", "closed"
    childPipe,         \* number of lines written by the child and not yet read
    mcpStdin,          \* the requests written to the child's stdin
    hostOut,           \* writes to sys.stdout the host has not yet taken as a frame
    hostClosed,        \* sys.stdin has reached end of stream
    termSignalled,     \* cleanup has called mcp_process.terminate()
    exitStatus,        \* the relay's exit status, -1 while it runs
    cycle,             \* history: the host message being dispatched and its effects
    truncSeen,         \* history: the host stream ended inside a frame
    issued,            \* history: the ids get_next_id has returned, in order
    lastDropped,       \* history: how the line before the reader's next read
                       \* was passed over: "none", "bad" (no JSON object), "miss"
    startup,           \* history: the startup events of run, in order
    wire,              \* a framed byte stream between an encoder and a decoder
    inFlight,          \* the payloads encoded onto `wire` and not yet decoded
    decoded            \* what the decoder last took off `wire`

vars == <<pc, sending, mainMsg, readerLine, mcp_process,
          pending_requests, request_counter, childState, childStdout,
          childPipe, mcpStdin, hostOut, hostClosed,
          termSignalled, exitStatus, cycle, truncSeen,
          issued, lastDropped, startup, wire, inFlight, decoded>>

threadVars == <<pc, sending, mainMsg, readerLine>>
tableVars == <<pending_requests, request_counter>>
childVars == <<childState, childStdout, childPipe>>
hostInVars == <<hostClosed, truncSeen>>
codecVars == <<wire, inFlight, decoded>>

\* ----------------------------------------------------------------- values
NoMessage == [id |-> None, action |-> None, response |-> None]
NoReply == [id |-> None, kind |-> "none", body |-> <<>>]
NoLine == [kind |-> "none", id |-> 0, body |-> "neither"]
EmptyTable == [k \in {} |-> [chrome_id |-> None]]

\* Fault variant of Response: the reply does not take over the id.
ResponseAnonymous(id, body) == [id |-> None, kind |-> "response", body |-> body]

\* A message for the host: {"id": id, "response": body}, {"id": id, "error":
\* body} or the ready notice {"type": "ready", ...}.
Response(id, body) == [id |-> id, kind |-> "response", body |-> body]
Error(id, body) == [id |-> id, kind |-> "error", body |-> body]
ReadyNotice == [id |-> None, kind |-> "ready", body |-> <<"MCP Bridge is ready">>]

\* The initialize request of start_mcp_server.
InitializeRequest(id) == [method |-> "initialize", id |-> id]

NoCycle == [active |-> FALSE, msg |-> NoMessage, replies |-> <<>>,
            mcpWrites |-> 0, allocated |-> FALSE, registered |-> FALSE]

Threads == {"main", "reader"}

\* What the decoder holds before its first read.
NoFrame == [status |-> "none", sent |-> <<>>, payload |-> <<>>]

\* The startup log after event e, each event entered when it first happens.
Logged(log, e) == IF \E i \in 1..Len(log) : log[i] = e THEN log ELSE Append(log, e)


\* ------------------------------------------------------ correlation table
\* Fault variant of get_next_id: the ids are drawn from a small ring.
get_next_id_wrapping(counter) == (counter % 3) + 1

\* get_next_id: the counter after the call, which is also the id returned.
get_next_id(counter) == counter + 1

\* The keys whose entry holds external id `id`.
MatchingIds(pending, id) == {k \in DOMAIN pending : pending[k].chrome_id = id}

\* The first such key in the dict's iteration order (insertion order; keys
\* are inserted in increasing order).
FirstMatch(pending, id) ==
    CHOOSE k \in MatchingIds(pending, id) : \A j \in MatchingIds(pending, id) : k <= j

\* Fault variant of Pop: the whole table is cleared.
PopAll(pending, k) == [j \in {} |-> [chrome_id |-> None]]

\* dict.pop(k), the table that is left.
Pop(pending, k) == [j \in DOMAIN pending \ {k} |-> pending[j]]

\* ------------------------------------------------------ host-side dispatch
\* The reply to a ping: {"status": "pong", "mcp_connected": ...}.
PongBody(proc) ==
    <<"pong", IF proc # None THEN "mcp_connected=True" ELSE "mcp_connected=False">>

\* Fault variant of PingReply: the ping is answered only while a child is
\* attached.
PingReplyWhenConnected(message, proc) ==
    IF proc # None THEN <<Response(message.id, PongBody(proc))>> ELSE <<>>

\* What handle_chrome_message sends for a ping.
PingReply(message, proc) == <<Response(message.id, PongBody(proc))>>

\* What handle_chrome_message sends for one of the Gmail actions: mock data.
ActionReply(message) ==
    IF message.action = "getEmails"
    THEN <<Response(message.id, <<"emails", "MCP Integration Working">>)>>
    ELSE <<Response(message.id, <<message.action, " acknowledged">>)>>

\* Fault variant of UnknownActionReply: the wording of native-host.py's main.
UnknownActionReplyNotImplemented(message) ==
    <<Error(message.id, <<"Action '", message.action, "' not implemented yet">>)>>

\* What handle_chrome_message sends in its last branch; the action of a
\* message without one is formatted as None.
UnknownActionReply(message) ==
    <<Error(message.id, <<"Unknown action: ", message.action>>)>>

\* Fault variant of handle_chrome_message: a Gmail action is registered
\* under a fresh internal id and forwarded to the child instead of being
\* answered with mock data.
handle_chrome_message_forwarding(message, pending, counter, proc) ==
    IF message.action = "ping"
    THEN [pending |-> pending, counter |-> counter,
          toChrome |-> PingReply(message, proc), toMcp |-> <<>>]
    ELSE IF message.action \in RecognizedActions
    THEN [pending |-> [k \in DOMAIN pending \cup {get_next_id(counter)} |->
                          IF k = get_next_id(counter) THEN [chrome_id |-> message.id]
                          ELSE pending[k]],
          counter |-> get_next_id(counter),
          toChrome |-> <<>>,
          toMcp |-> <<[method |-> message.action, id |-> get_next_id(counter)]>>]
    ELSE [pending |-> pending, counter |-> counter,
          toChrome |-> UnknownActionReply(message), toMcp |-> <<>>]

\* handle_chrome_message: the table and counter it leaves, the messages it
\* sends to the host (toChrome) and to the child (toMcp).
handle_chrome_message(message, pending, counter, proc) ==
    LET keep(out) == [pending |-> pending, counter |-> counter,
                      toChrome |-> out, toMcp |-> <<>>]
    IN  IF message.action = "ping"
        THEN keep(PingReply(message, proc))
        ELSE IF Truthy(message.response) /\ Truthy(message.id)
        THEN IF MatchingIds(pending, message.id) # {}
             THEN [pending |-> Pop(pending, FirstMatch(pending, message.id)),
                   counter |-> counter,
                   toChrome |-> <<Response(message.id, <<message.response>>)>>,
                   toMcp |-> <<>>]
             ELSE keep(<<>>)
        ELSE IF message.action \in RecognizedActions
        THEN keep(ActionReply(message))
        ELSE keep(UnknownActionReply(message))

\* --------------------------------------------------- child-side dispatch
\* Fault variant of handle_mcp_message: every message with an id is taken
\* for a reply and forwarded, in the table or not.
handle_mcp_message_unchecked(message, pending) ==
    IF message.id # 0
    THEN [pending |-> Pop(pending, message.id),
          toChrome |-> <<IF message.body = "result"
                         THEN Response(None, <<"result">>)
                         ELSE Error(None, <<"Unknown error">>)>>]
    ELSE [pending |-> pending, toChrome |-> <<>>]

\* handle_mcp_message on a JSON object: the table it leaves and what it
\* sends to the host.
handle_mcp_message(message, pending) ==
    IF message.id # 0 /\ message.id \in DOMAIN pending
    THEN [pending |-> Pop(pending, message.id),
          toChrome |-> <<IF message.body = "result"
                         THEN Response(pending[message.id].chrome_id, <<"result">>)
                         ELSE Error(pending[message.id].chrome_id,
                                    IF message.body = "error" THEN <<"error">>
                                    ELSE <<"Unknown error">>)>>]
    ELSE [pending |-> pending, toChrome |-> <<>>]

\* ------------------------------------------------------- the host envelope
\* Fault variant of pack_I: the length is packed into one byte.
pack_B(n) == <<n % 256, 0, 0, 0>>

\* struct.pack('I', n): four bytes in native order, least significant first
\* on the machines Chrome runs on.
pack_I(n) == <<n % 256, (n \div 256) % 256, (n \div 65536) % 256,
               (n \div 16777216) % 256>>

\* struct.unpack('I', raw)[0].
unpack_I(raw) == raw[1] + 256 * raw[2] + 65536 * raw[3] + 16777216 * raw[4]

\* What send_to_chrome and send_message write for the payload bytes.
encodeEnvelope(payload) == pack_I(Len(payload)) \o payload

\* buffer.read(n) on a stream that ends after `stream`: the bytes returned
\* and the bytes left.
ReadBytes(stream, n) == SubSeq(stream, 1, IF n < Len(stream) THEN n ELSE Len(stream))
AfterRead(stream, n) == SubSeq(stream, Len(ReadBytes(stream, n)) + 1, Len(stream))

\* The read of one frame in run and read_message: read(4), the test for the
\* end of the stream, struct.unpack, read(message_length).
decodeEnvelope(stream) ==
    LET raw == ReadBytes(stream, 4)
        body == AfterRead(stream, 4)
    IN  IF Len(raw) = 0
        THEN [status |-> "eof", payload |-> <<>>, rest |-> stream]
        ELSE IF Len(raw) < 4
        THEN [status |-> "struct.error", payload |-> <<>>, rest |-> body]
        ELSE [status |-> "frame", payload |-> ReadBytes(body, unpack_I(raw)),
              rest |-> AfterRead(body, unpack_I(raw))]

\* ------------------------------------------------------------ host output
\* One write to sys.stdout.buffer: the packed length or the payload of `msg`.
LenWrite(by, msg) == [part |-> "len", by |-> by, msg |-> msg]
PayloadWrite(by, msg) == [part |-> "payload", by |-> by, msg |-> msg]

\* What is left of the stream once the writes of two frames have been mixed:
\* the host can no longer tell where a frame starts.
Desync == <<[part |-> "desync", by |-> "none", msg |-> NoReply],
            [part |-> "desync", by |-> "none", msg |-> NoReply]>>

\* The stream after a write: the host takes a frame off as soon as its
\* length and its payload are there, one after the other.
WriteHost(out, w) ==
    IF w.part = "payload" /\ out = <<LenWrite(w.by, w.msg)>>
    THEN <<>>
    ELSE IF out = <<>> THEN <<w>> ELSE Desync

\* ------------------------------------------------------------------- Init
Init ==
    /\ pc = [t \in Threads |-> IF t = "main" THEN "spawn" ELSE "none"]
    /\ sending = [t \in Threads |-> NoReply]
    /\ mainMsg = NoMessage
    /\ readerLine = NoLine
    /\ mcp_process = None
    /\ pending_requests = EmptyTable
    /\ request_counter = 0
    /\ childState = "none"
    /\ childStdout = "none"
    /\ childPipe = 0
    /\ mcpStdin = <<>>
    /\ hostOut = <<>>
    /\ hostClosed = FALSE
    /\ termSignalled = FALSE
    /\ exitStatus = -1
    /\ cycle = NoCycle
    /\ truncSeen = FALSE
    /\ issued = <<>>
    /\ lastDropped = "none"
    /\ startup = <<>>
    /\ wire = <<>>
    /\ inFlight = <<>>
    /\ decoded = NoFrame

\* The relay process is alive: its threads can take steps.
Alive == pc["main"] # "exited"

\* ------------------------------------------------- main thread: startup
\* start_mcp_server, the Popen call and the start of the reader thread; a
\* Popen that raises is caught and logged, and run goes on.
Spawn ==
    /\ pc["main"] = "spawn"
    /\ \/ /\ mcp_process' = "Popen"
          /\ childState' = "running"
          /\ childStdout' = "open"
          /\ pc' = [pc EXCEPT !["main"] = "initialize", !["reader"] = "poll"]
          /\ startup' = Append(startup, "spawn")
       \/ /\ pc' = [pc EXCEPT !["main"] = "ready"]
          /\ UNCHANGED <<mcp_process, childState, childStdout, startup>>
    /\ UNCHANGED <<sending, mainMsg, readerLine, tableVars, childPipe,
                   mcpStdin, hostOut, hostInVars, termSignalled, exitStatus, cycle,
                   issued, lastDropped, codecVars>>

\* Fault variant of send_to_mcp: the write is tried whatever poll() says.
send_to_mcp_unguarded(stdin, proc, state, message) == Append(stdin, message)

\* send_to_mcp: the child's stdin after the call; nothing is written once
\* poll() reports that the child has exited.
send_to_mcp(stdin, proc, state, message) ==
    IF proc # None /\ state = "running" THEN Append(stdin, message) ELSE stdin

\* start_mcp_server, the initialize request with id get_next_id().
Initialize ==
    /\ pc["main"] = "initialize"
    /\ request_counter' = get_next_id(request_counter)
    /\ issued' = Append(issued, get_next_id(request_counter))
    /\ mcpStdin' = send_to_mcp(mcpStdin, mcp_process, childState,
                               InitializeRequest(get_next_id(request_counter)))
    /\ startup' = IF mcpStdin' # mcpStdin THEN Append(startup, "initialize") ELSE startup
    /\ pc' = [pc EXCEPT !["main"] = "ready"]
    /\ UNCHANGED <<sending, mainMsg, readerLine, mcp_process, pending_requests,
                   childVars, hostOut, hostInVars, termSignalled, exitStatus, cycle,
                   lastDropped, codecVars>>

\* run, the ready notice after the sleep.
Ready ==
    /\ pc["main"] = "ready"
    /\ sending' = [sending EXCEPT !["main"] = ReadyNotice]
    /\ pc' = [pc EXCEPT !["main"] = "send_len"]
    /\ UNCHANGED <<mainMsg, readerLine, mcp_process, tableVars, childVars, mcpStdin,
                   hostOut, hostInVars, termSignalled, exitStatus, cycle,
                   issued, lastDropped, startup, codecVars>>

\* ------------------------------------------------------- send_to_chrome
\* Where a thread goes on after send_to_chrome: every caller in the main
\* thread is followed by the read loop, the reader by its loop condition.
AfterSend(t) == IF t = "main" THEN "read" ELSE "poll"

\* send_to_chrome called by thread t, the write of the packed length.
SendLen(t) ==
    /\ Alive
    /\ pc[t] = "send_len"
    /\ hostOut' = WriteHost(hostOut, LenWrite(t, sending[t]))
    /\ pc' = [pc EXCEPT ![t] = "send_payload"]
    /\ UNCHANGED <<sending, mainMsg, readerLine, mcp_process, tableVars, childVars,
                   mcpStdin, hostInVars, termSignalled, exitStatus, cycle,
                   issued, lastDropped, startup, codecVars>>

\* send_to_chrome called by thread t, the write of the payload and the flush.
SendPayload(t) ==
    /\ Alive
    /\ pc[t] = "send_payload"
    /\ hostOut' = WriteHost(hostOut, PayloadWrite(t, sending[t]))
    /\ cycle' = IF t = "main" /\ cycle.active
                THEN [cycle EXCEPT !.replies = Append(@, sending[t])]
                ELSE cycle
    /\ startup' = IF sending[t].kind = "ready" THEN Append(startup, "ready") ELSE startup
    /\ sending' = [sending EXCEPT ![t] = NoReply]
    /\ pc' = [pc EXCEPT ![t] = AfterSend(t)]
    /\ UNCHANGED <<mainMsg, readerLine, mcp_process, tableVars, childVars, mcpStdin,
                   hostInVars, termSignalled, exitStatus,
                   issued, lastDropped, codecVars>>

\* ------------------------------------------------ main thread: read loop
\* Fault variant of EndOfStream: the test can never succeed.
EndOfStreamNever(n) == n < 0

\* The loop's break test on the number of bytes read(4) returned.
EndOfStream(n) == n = 0

\* run's loop when read(4) returns n < 4 bytes and the stream is at its
\* end: no byte breaks the loop, one to three make struct.unpack raise,
\* which the loop's except logs.
MainReadPrefix(n) ==
    /\ pc["main"] = "read"
    /\ n > 0 => ~hostClosed
    /\ hostClosed' = TRUE
    /\ truncSeen' = (truncSeen \/ n > 0)
    /\ startup' = Logged(startup, "read")
    /\ pc' = [pc EXCEPT !["main"] = IF EndOfStream(n) THEN "cleanup" ELSE "read"]
    /\ UNCHANGED <<sending, mainMsg, readerLine, mcp_process, tableVars, childVars,
                   mcpStdin, hostOut, termSignalled, exitStatus, cycle,
                   issued, lastDropped, codecVars>>

\* run's loop on a frame whose bytes are no JSON object: decode, json.loads
\* or message.get raises and the loop's except logs it. A truncated frame
\* (fewer bytes than declared, then end of stream) is read the same way.
MainReadBad(truncated, payload) ==
    /\ pc["main"] = "read"
    /\ ~hostClosed
    /\ hostClosed' = truncated
    /\ truncSeen' = (truncSeen \/ truncated)
    /\ startup' = Logged(startup, "read")
    /\ UNCHANGED <<threadVars, mcp_process, tableVars, childVars, mcpStdin,
                   hostOut, termSignalled, exitStatus, cycle,
                   issued, lastDropped, codecVars>>

\* run's loop on a frame whose bytes are a JSON object: it is handed to
\* handle_chrome_message, whether or not the frame was whole.
MainReadMessage(truncated, m) ==
    /\ pc["main"] = "read"
    /\ ~hostClosed
    /\ hostClosed' = truncated
    /\ truncSeen' = (truncSeen \/ truncated)
    /\ startup' = Logged(startup, "read")
    /\ mainMsg' = m
    /\ pc' = [pc EXCEPT !["main"] = "dispatch"]
    /\ cycle' = [NoCycle EXCEPT !.active = TRUE, !.msg = m]
    /\ UNCHANGED <<sending, readerLine, mcp_process, tableVars, childVars, mcpStdin,
                   hostOut, termSignalled, exitStatus,
                   issued, lastDropped, codecVars>>

\* handle_chrome_message up to its send_to_chrome.
Dispatch ==
    /\ pc["main"] = "dispatch"
    /\ LET r == handle_chrome_message(mainMsg, pending_requests, request_counter,
                                      mcp_process)
           stdin == IF r.toMcp = <<>> THEN mcpStdin
                    ELSE send_to_mcp(mcpStdin, mcp_process, childState, r.toMcp[1])
       IN  /\ pending_requests' = r.pending
           /\ request_counter' = r.counter
           /\ issued' = IF r.counter # request_counter THEN Append(issued, r.counter)
                         ELSE issued
           /\ mcpStdin' = stdin
           /\ cycle' = [cycle EXCEPT
                          !.mcpWrites = Len(stdin) - Len(mcpStdin),
                          !.allocated = (r.counter # request_counter),
                          !.registered =
                              (\E k \in DOMAIN r.pending \ DOMAIN pending_requests :
                                   r.pending[k].chrome_id = mainMsg.id)]
           /\ IF r.toChrome = <<>>
              THEN /\ pc' = [pc EXCEPT !["main"] = "read"]
                   /\ UNCHANGED sending
              ELSE /\ pc' = [pc EXCEPT !["main"] = "send_len"]
                   /\ sending' = [sending EXCEPT !["main"] = r.toChrome[1]]
    /\ mainMsg' = NoMessage
    /\ UNCHANGED <<readerLine, mcp_process, childVars, hostOut, hostInVars,
                   termSignalled, exitStatus,
                   lastDropped, startup, codecVars>>

\* --------------------------------------------------- main thread: cleanup
\* The status the script ends with: it runs off its end, whatever happened.
ScriptStatus == 0

\* cleanup, terminate(); without a child the script ends at once.
Cleanup ==
    /\ pc["main"] = "cleanup"
    /\ IF mcp_process # None
       THEN /\ termSignalled' = TRUE
            /\ pc' = [pc EXCEPT !["main"] = "wait"]
            /\ UNCHANGED exitStatus
       ELSE /\ pc' = [pc EXCEPT !["main"] = "exited"]
            /\ exitStatus' = ScriptStatus
            /\ UNCHANGED termSignalled
    /\ UNCHANGED <<sending, mainMsg, readerLine, mcp_process, tableVars, childVars,
                   mcpStdin, hostOut, hostInVars, cycle,
                   issued, lastDropped, startup, codecVars>>

\* Fault variant of WaitReturns: cleanup does not wait for the child.
WaitReturnsAtOnce(state) == TRUE

\* Popen.wait() returns once the child has exited.
WaitReturns(state) == state = "exited"

\* cleanup, wait(), and the end of the script.
Wait ==
    /\ pc["main"] = "wait"
    /\ WaitReturns(childState)
    /\ pc' = [pc EXCEPT !["main"] = "exited"]
    /\ exitStatus' = ScriptStatus
    /\ UNCHANGED <<sending, mainMsg, readerLine, mcp_process, tableVars, childVars,
                   mcpStdin, hostOut, hostInVars, termSignalled, cycle,
                   issued, lastDropped, startup, codecVars>>

\* ----------------------------------------------------------- reader thread
\* read_mcp_output's loop condition: self.mcp_process and poll() is None.
LoopCondition(proc, state) == proc # None /\ state = "running"

\* read_mcp_output, the test of the loop condition.
ReaderPoll ==
    /\ Alive
    /\ pc["reader"] = "poll"
    /\ pc' = [pc EXCEPT !["reader"] =
                 IF LoopCondition(mcp_process, childState) THEN "readline" ELSE "done"]
    /\ UNCHANGED <<sending, mainMsg, readerLine, mcp_process, tableVars, childVars,
                   mcpStdin, hostOut, hostInVars, termSignalled, exitStatus, cycle,
                   issued, lastDropped, startup, codecVars>>

\* read_mcp_output, readline() at the end of the child's output: the empty
\* line is skipped and the loop condition is tested again.
ReaderReadEmpty ==
    /\ Alive
    /\ pc["reader"] = "readline"
    /\ childPipe = 0
    /\ childStdout = "closed"
    /\ pc' = [pc EXCEPT !["reader"] = "poll"]
    /\ UNCHANGED <<sending, mainMsg, readerLine, mcp_process, tableVars, childVars,
                   mcpStdin, hostOut, hostInVars, termSignalled, exitStatus, cycle,
                   issued, lastDropped, startup, codecVars>>

\* read_mcp_output, readline() returning a line of the child. What the
\* line holds is the child's choice, made here where it is first seen.
ReaderReadLine(line) ==
    /\ Alive
    /\ pc["reader"] = "readline"
    /\ childPipe > 0
    /\ childPipe' = childPipe - 1
    /\ readerLine' = line
    /\ pc' = [pc EXCEPT !["reader"] = "handle"]
    /\ lastDropped' = "none"
    /\ UNCHANGED <<sending, mainMsg, mcp_process, tableVars, childState, childStdout, mcpStdin, hostOut, hostInVars, termSignalled,
                   exitStatus, cycle,
                   issued, startup, codecVars>>

\* Fault variant of ReaderHandle: what a line that is no JSON object raises
\* leaves the loop.
ReaderHandleFatal ==
    /\ Alive
    /\ pc["reader"] = "handle"
    /\ LET r == IF readerLine.kind = "object"
                THEN handle_mcp_message(readerLine, pending_requests)
                ELSE [pending |-> pending_requests, toChrome |-> <<>>]
       IN  /\ pending_requests' = r.pending
           /\ lastDropped' = IF readerLine.kind # "object" THEN "bad"
                              ELSE IF r.toChrome = <<>> THEN "miss"
                              ELSE lastDropped
           /\ IF r.toChrome = <<>>
              THEN /\ pc' = [pc EXCEPT !["reader"] =
                               IF readerLine.kind = "object" THEN "poll" ELSE "done"]
                   /\ UNCHANGED sending
              ELSE /\ pc' = [pc EXCEPT !["reader"] = "send_len"]
                   /\ sending' = [sending EXCEPT !["reader"] = r.toChrome[1]]
    /\ readerLine' = NoLine
    /\ UNCHANGED <<mainMsg, mcp_process, request_counter, childVars, mcpStdin,
                   hostOut, hostInVars, termSignalled, exitStatus, cycle,
                   issued, startup, codecVars>>

\* read_mcp_output on the line read: json.loads, then handle_mcp_message up
\* to its send_to_chrome. A JSONDecodeError is passed over; what a JSON
\* value that is no object raises is logged by the loop's except.
ReaderHandle ==
    /\ Alive
    /\ pc["reader"] = "handle"
    /\ LET r == IF readerLine.kind = "object"
                THEN handle_mcp_message(readerLine, pending_requests)
                ELSE [pending |-> pending_requests, toChrome |-> <<>>]
       IN  /\ pending_requests' = r.pending
           /\ lastDropped' = IF readerLine.kind # "object" THEN "bad"
                              ELSE IF r.toChrome = <<>> THEN "miss"
                              ELSE lastDropped
           /\ IF r.toChrome = <<>>
              THEN /\ pc' = [pc EXCEPT !["reader"] = "poll"]
                   /\ UNCHANGED sending
              ELSE /\ pc' = [pc EXCEPT !["reader"] = "send_len"]
                   /\ sending' = [sending EXCEPT !["reader"] = r.toChrome[1]]
    /\ readerLine' = NoLine
    /\ UNCHANGED <<mainMsg, mcp_process, request_counter, childVars, mcpStdin,
                   hostOut, hostInVars, termSignalled, exitStatus, cycle,
                   issued, startup, codecVars>>

\* ------------------------------------------------------ the child process
\* The child writes a line to its stdout.
ChildEmit ==
    /\ childState = "running"
    /\ childStdout = "open"
    /\ childPipe < MaxPipeLines
    /\ childPipe' = childPipe + 1
    /\ UNCHANGED <<threadVars, mcp_process, tableVars, childState, childStdout,
                   mcpStdin, hostOut, hostInVars, termSignalled, exitStatus, cycle,
                   issued, lastDropped, startup, codecVars>>

\* The child closes its stdout and keeps running.
ChildCloseStdout ==
    /\ childState = "running"
    /\ childStdout = "open"
    /\ childStdout' = "closed"
    /\ UNCHANGED <<threadVars, mcp_process, tableVars, childState, childPipe, mcpStdin, hostOut, hostInVars, termSignalled,
                   exitStatus, cycle,
                   issued, lastDropped, startup, codecVars>>

\* The child exits, by itself or on the signal of terminate().
ChildExit ==
    /\ childState = "running"
    /\ childState' = "exited"
    /\ childStdout' = "closed"
    /\ UNCHANGED <<threadVars, mcp_process, tableVars, childPipe,
                   mcpStdin, hostOut, hostInVars, termSignalled, exitStatus, cycle,
                   issued, lastDropped, startup, codecVars>>

\* ---------------------------------------------------------- specification
\* The steps the main thread takes without waiting for the host.
MainStep ==
    \/ Spawn
    \/ Initialize
    \/ Ready
    \/ SendLen("main")
    \/ SendPayload("main")
    \/ Dispatch
    \/ Cleanup
    \/ Wait

\* The main thread's read of what the host delivers.
HostStep ==
    \/ \E n \in 0..3 : MainReadPrefix(n)
    \/ \E t \in BOOLEAN, p \in BadPayloads : MainReadBad(t, p)
    \/ \E t \in BOOLEAN, m \in HostMessages : MainReadMessage(t, m)

ReaderStep ==
    \/ ReaderPoll
    \/ ReaderReadEmpty
    \/ \E line \in ChildLines : ReaderReadLine(line)
    \/ ReaderHandle
    \/ SendLen("reader")
    \/ SendPayload("reader")

ChildStep ==
    \/ ChildEmit
    \/ ChildCloseStdout
    \/ ChildExit

Next == MainStep \/ HostStep \/ ReaderStep \/ ChildStep

Spec == Init /\ [][Next]_vars

\* The scheduler runs a thread that can take a step; the read of a closed
\* host stream returns at once. Nothing is promised about the host or the
\* child.
FairSpec ==
    /\ Spec
    /\ WF_vars(MainStep \/ (hostClosed /\ MainReadPrefix(0)))
    /\ WF_vars(ReaderStep)

\* ------------------------------------------------- get_next_id on its own
\* One call of get_next_id on the bridge, as start_mcp_server makes it.
NextId ==
    /\ Len(issued) < MaxCalls
    /\ request_counter' = get_next_id(request_counter)
    /\ issued' = Append(issued, get_next_id(request_counter))
    /\ UNCHANGED <<threadVars, mcp_process, pending_requests, childVars, mcpStdin,
                   hostOut, hostInVars, termSignalled, exitStatus, cycle,
                   lastDropped, startup, codecVars>>

\* A freshly constructed MCPBridge on which get_next_id is called again and
\* again.
AllocSpec == Init /\ [][NextId]_vars

\* --------------------------------------------------- the envelope on its own
\* The encoder frames payload P onto the stream.
Encode(P) ==
    /\ Len(inFlight) < MaxInFlight
    /\ wire' = wire \o encodeEnvelope(P)
    /\ inFlight' = Append(inFlight, P)
    /\ UNCHANGED <<threadVars, mcp_process, tableVars, childVars, mcpStdin, hostOut,
                   hostInVars, termSignalled, exitStatus, cycle, issued, lastDropped,
                   startup, decoded>>

\* The decoder takes the next frame off the stream.
Decode ==
    /\ inFlight # <<>>
    /\ LET d == decodeEnvelope(wire)
       IN  /\ decoded' = [status |-> d.status, sent |-> Head(inFlight),
                          payload |-> d.payload]
           /\ wire' = d.rest
    /\ inFlight' = Tail(inFlight)
    /\ UNCHANGED <<threadVars, mcp_process, tableVars, childVars, mcpStdin, hostOut,
                   hostInVars, termSignalled, exitStatus, cycle, issued, lastDropped,
                   startup>>

\* An encoder and a decoder at the two ends of one stream.
CodecSpec == Init /\ [][(\E P \in Payloads : Encode(P)) \/ Decode]_vars

\* ------------------------------------------------ the handlers on a table
\* The relay after its startup, the child running, with requests registered
\* in pending_requests under the ids get_next_id has returned.
HandlerInit ==
    /\ pc = [t \in Threads |-> IF t = "main" THEN "read" ELSE "poll"]
    /\ sending = [t \in Threads |-> NoReply]
    /\ mainMsg = NoMessage
    /\ readerLine = NoLine
    /\ mcp_process = "Popen"
    /\ pending_requests \in Tables
    /\ request_counter = 2
    /\ childState = "running"
    /\ childStdout = "open"
    /\ childPipe = 0
    /\ mcpStdin = <<InitializeRequest(1)>>
    /\ hostOut = <<>>
    /\ hostClosed = FALSE
    /\ termSignalled = FALSE
    /\ exitStatus = -1
    /\ cycle = NoCycle
    /\ truncSeen = FALSE
    /\ issued = <<1, 2>>
    /\ lastDropped = "none"
    /\ startup = <<"spawn", "initialize", "ready">>
    /\ wire = <<>>
    /\ inFlight = <<>>
    /\ decoded = NoFrame

\* handle_chrome_message on the host's messages and read_mcp_output on the
\* child's lines, both threads running, while host and child stay up.
HandlerNext ==
    \/ \E m \in HostMessages : MainReadMessage(FALSE, m)
    \/ Dispatch
    \/ \E t \in Threads : SendLen(t)
    \/ \E t \in Threads : SendPayload(t)
    \/ ReaderPoll
    \/ \E line \in ChildLines : ReaderReadLine(line)
    \/ ReaderHandle
    \/ ChildEmit

HandlerSpec == HandlerInit /\ [][HandlerNext]_vars

\* ================================================================== claims
\* handle_chrome_message has returned for the message of the current cycle.
Dispatched == cycle.active /\ pc["main"] # "dispatch"

\* The main thread is inside the send_to_chrome of the current cycle.
MainSending == pc["main"] \in {"send_len", "send_payload"}

\* The current cycle answers the host with exactly `reply`: nothing else has
\* been sent, and once send_to_chrome has returned the reply is out.
RepliesExactly(reply) ==
    IF MainSending
    THEN cycle.replies = <<>> /\ sending["main"] = reply
    ELSE cycle.replies = <<reply>>

\* The current cycle sends the host nothing.
RepliesNothing == ~MainSending /\ cycle.replies = <<>>

\* C1: a host message with a recognized action and no response field makes
\* handle_chrome_message allocate a fresh internalId, register a
\* PendingRequest for the message's id and write a request to the child
\* (stated for a message with a usual id and with the child running, so
\* that the write can happen).
C1_RecognizedActionForwarded ==
    (/\ Dispatched
     /\ cycle.msg.action \in RecognizedActions
     /\ cycle.msg.response = None
     /\ Truthy(cycle.msg.id)
     /\ childState = "running")
    => (cycle.allocated /\ cycle.registered /\ cycle.mcpWrites = 1)

\* C2: an action-request {id, action} whose action is neither ping nor
\* recognized gets exactly one reply {id, error: "Unknown action: <action>"}
\* and nothing is written to the child for it.
C2_UnknownActionError ==
    (/\ Dispatched
     /\ cycle.msg.action \notin ({None, "ping"} \cup RecognizedActions)
     /\ cycle.msg.id # None
     /\ cycle.msg.response = None)
    => /\ RepliesExactly(Error(cycle.msg.id, <<"Unknown action: ", cycle.msg.action>>))
       /\ cycle.mcpWrites = 0

\* C2, its case reached: the reply to bogusAction is out, the child running.
C2_Witness ==
    /\ pc["main"] = "read"
    /\ cycle.msg = [id |-> "7", action |-> "bogusAction", response |-> None]
    /\ cycle.replies = <<Error("7", <<"Unknown action: ", "bogusAction">>)>>
    /\ childState = "running"

\* C3: a ping gets exactly one reply {id, response: {status: "pong", ...}}
\* within its dispatch, before the next host message is read, in every
\* state of the child, and nothing is written to the child for it.
C3_PingAnswered ==
    (Dispatched /\ cycle.msg.action = "ping")
    => /\ \E body \in {PongBody(None), PongBody("Popen")} :
              RepliesExactly(Response(cycle.msg.id, body))
       /\ cycle.mcpWrites = 0
       /\ pc["main"] = "read" => Len(cycle.replies) = 1

\* C3, its case reached: a ping answered with the child never spawned.
C3_Witness ==
    /\ pc["main"] = "read"
    /\ cycle.msg.action = "ping"
    /\ Len(cycle.replies) = 1
    /\ cycle.replies[1].body[1] = "pong"
    /\ mcp_process = None
    /\ childState = "none"

\* C4: a host message with no action field and no response field is
\* discarded: nothing is sent to the host and nothing to the child for it.
\* (Stated for the relay with its child running. The claim also covers an
\* unrecognized action without a response field, where C2 asks for the
\* error reply.)
C4_NoActionDiscarded ==
    (/\ Dispatched
     /\ cycle.msg.action = None
     /\ cycle.msg.response = None
     /\ childState = "running")
    => (RepliesNothing /\ cycle.mcpWrites = 0)

\* The main thread takes handle_chrome_message's step.
DispatchStep == pc["main"] = "dispatch" /\ pc'["main"] # "dispatch"

\* The reader thread takes handle_mcp_message's step on a JSON object.
ResolveStep ==
    /\ pc["reader"] = "handle"
    /\ pc'["reader"] # "handle"
    /\ readerLine.kind = "object"

\* C5: allocating an internal id for external id x and then resolving it
\* returns x exactly once. Allocation: the dispatch of a recognized action
\* with id x stores x under the next internal id. Resolution: a child
\* message whose id is in the table is sent to the host under the stored
\* id and its entry removed, so that a second one is dropped.
C5_AllocateThenResolveOnce ==
    [][/\ (/\ DispatchStep
           /\ mainMsg.action \in RecognizedActions
           /\ mainMsg.response = None
           /\ Truthy(mainMsg.id)
           /\ childState = "running")
          => /\ request_counter' = get_next_id(request_counter)
             /\ DOMAIN pending_requests' = DOMAIN pending_requests \cup {request_counter'}
             /\ pending_requests'[request_counter'].chrome_id = mainMsg.id
       /\ ResolveStep
          => IF readerLine.id \in DOMAIN pending_requests
             THEN /\ sending'["reader"].id = pending_requests[readerLine.id].chrome_id
                  /\ readerLine.id \notin DOMAIN pending_requests'
             ELSE /\ pc'["reader"] = "poll"
                  /\ pending_requests' = pending_requests
      ]_vars

\* C6: the two writes of a frame are never interleaved with the writes of
\* another frame: what the host has not yet taken as a frame is nothing, or
\* the length of the frame whose writer is about to write its payload.
C6_FramesSerialized ==
    \/ hostOut = <<>>
    \/ /\ Len(hostOut) = 1
       /\ hostOut[1].part = "len"
       /\ pc[hostOut[1].by] = "send_payload"
       /\ sending[hostOut[1].by] = hostOut[1].msg

\* C6, its case reached: the reader thread handles the child's answer to
\* the initialize request (id 1) while the main thread is inside a frame.
C6_Witness ==
    /\ Len(hostOut) = 1
    /\ pc["main"] = "send_payload"
    /\ pc["reader"] = "handle"
    /\ readerLine.kind = "object"
    /\ readerLine.id = request_counter
    /\ readerLine.body = "result"

\* C7: once the child's output is closed or the child has exited, the
\* reader's loop ends (or the relay itself has ended).
C7_ReaderLoopTerminates ==
    (pc["reader"] # "none" /\ childStdout = "closed")
        ~> (pc["reader"] = "done" \/ ~Alive)

\* The host read loop of run has been left.
LoopStopped == pc["main"] \in {"cleanup", "wait", "exited"}

\* C8: after a truncated envelope and the end of the host stream the host
\* read loop exits, and the step that meets the truncated frame leaves the
\* reader thread, the table and the child alone.
C8_TruncatedFrameExitsHostLoop ==
    /\ truncSeen ~> LoopStopped
    /\ [][(truncSeen' /\ ~truncSeen)
          => /\ pc'["reader"] = pc["reader"]
             /\ sending'["reader"] = sending["reader"]
             /\ UNCHANGED <<readerLine, tableVars, childVars, hostOut>>
             /\ pc'["main"] \in {"read", "dispatch"}]_vars

\* C8, its case reached: the host loop has ended after a truncated frame
\* and the reader thread is still in its loop.
C8_Witness ==
    /\ truncSeen
    /\ pc["main"] = "cleanup"
    /\ pc["reader"] = "readline"
    /\ childState = "running"

\* C9: a failed spawn makes the relay exit with a non-zero status without
\* entering the host read loop; after a successful start and a clean end of
\* the host stream the status is 0.
C9_SpawnFailureIsFatal ==
    /\ (mcp_process = None /\ pc["main"] # "spawn")
       => /\ pc["main"] \notin {"read", "dispatch"}
          /\ ~cycle.active
          /\ ~Alive => exitStatus # 0
    /\ (mcp_process # None /\ ~Alive) => exitStatus = 0

\* C10: at shutdown the host read loop stops and no further host message is
\* read or dispatched; then the child is signalled; then the relay waits for
\* the child to exit; only then does the relay exit.
C10_ShutdownOrder ==
    [][/\ LoopStopped
          => /\ LoopStopped'
             /\ UNCHANGED <<mainMsg, cycle, hostInVars, hostOut, mcpStdin>>
       /\ termSignalled'
          => \/ termSignalled
             \/ pc["main"] = "cleanup" /\ pc'["main"] = "wait"
       /\ (pc'["main"] = "wait" \/ (mcp_process # None /\ ~Alive'))
          => termSignalled'
       /\ (mcp_process # None /\ Alive /\ ~Alive')
          => /\ pc["main"] = "wait"
             /\ childState = "exited"
      ]_vars

\* C10, its case reached: the relay has exited after waiting for a child
\* that was still running when the host stream ended.
C10_Witness ==
    /\ ~Alive
    /\ termSignalled
    /\ childState = "exited"
    /\ pc["reader"] \in {"poll", "readline"}
    /\ cycle.active

\* C11: the ids returned by get_next_id are pairwise distinct and strictly
\* increasing in the order of the calls, so that an id returned later is
\* never one handed out before. (pending_requests is a dict keyed by the
\* id: two entries under one id cannot be written down.)
C11_IdsDistinctIncreasing ==
    /\ \A i, j \in 1..Len(issued) : i < j => issued[i] < issued[j]
    /\ \A i \in 1..Len(issued) : issued[i] <= request_counter
    /\ Cardinality({issued[i] : i \in 1..Len(issued)}) = Len(issued)

\* C11, its case reached: get_next_id has been called many times.
C11_Witness == Len(issued) = MaxCalls /\ request_counter = issued[MaxCalls]

\* C12: decoding the envelope the host-facing encoder writes for payload P
\* (four length bytes in native order, then the payload) with the
\* host-facing decoder (read 4 bytes, then that many) yields P again, and
\* leaves the stream at the start of the next envelope.
C12_EnvelopeRoundTrip ==
    /\ decoded.status # "none"
       => /\ decoded.status = "frame"
          /\ decoded.payload = decoded.sent
    /\ inFlight = <<>> => wire = <<>>
    /\ inFlight # <<>>
       => SubSeq(wire, 1, 4 + Len(Head(inFlight))) = encodeEnvelope(Head(inFlight))

\* C12, its case reached: a payload whose length needs the second byte of
\* the prefix has come out of the decoder, another envelope behind it.
C12_Witness ==
    /\ decoded.status = "frame"
    /\ Len(decoded.sent) = 256
    /\ decoded.payload = decoded.sent
    /\ Len(inFlight) = 1

\* The reader thread is inside send_to_chrome.
ReaderSending == pc["reader"] \in {"send_len", "send_payload"}

\* C13: handle_mcp_message on a message whose id is a key of
\* pending_requests removes that entry and no other, and sends one message
\* to the host under the stored chrome_id: the result as a response if the
\* message has one, an error otherwise; after that message the reader is
\* back in its loop.
C13_ResolveForwardsOnce ==
    [][/\ (ResolveStep /\ readerLine.id \in DOMAIN pending_requests)
          => /\ DOMAIN pending_requests' = DOMAIN pending_requests \ {readerLine.id}
             /\ \A k \in DOMAIN pending_requests' :
                    pending_requests'[k] = pending_requests[k]
             /\ pc'["reader"] = "send_len"
             /\ sending'["reader"].id = pending_requests[readerLine.id].chrome_id
             /\ sending'["reader"].kind =
                    (IF readerLine.body = "result" THEN "response" ELSE "error")
             /\ sending'["reader"].body =
                    (IF readerLine.body = "neither" THEN <<"Unknown error">>
                     ELSE <<readerLine.body>>)
             /\ UNCHANGED <<request_counter, hostOut, mcpStdin>>
       /\ (ReaderSending /\ pc'["reader"] # pc["reader"])
          => IF pc["reader"] = "send_len"
             THEN pc'["reader"] = "send_payload" /\ sending'["reader"] = sending["reader"]
             ELSE pc'["reader"] = "poll" /\ sending'["reader"] = NoReply
       /\ (~ReaderSending /\ ReaderSending')
          => (ResolveStep /\ readerLine.id \in DOMAIN pending_requests)
      ]_vars

\* C13, its case reached: a message without result or error has resolved
\* entry 1, stored under "8", and entry 2 is still there.
C13_Witness ==
    /\ pc["reader"] = "send_payload"
    /\ sending["reader"] = Error("8", <<"Unknown error">>)
    /\ DOMAIN pending_requests = {2}
    /\ pending_requests[2].chrome_id = "7"

\* C14: a message of the child without an id, or with an id that is no key
\* of pending_requests, is dropped: the table and the counter stay as they
\* are, nothing is written to the host or to the child, the main thread is
\* left alone, and the reader goes back to its loop for the next line.
C14_CorrelationMissDropped ==
    [][(ResolveStep /\ readerLine.id \notin DOMAIN pending_requests)
          => /\ UNCHANGED <<tableVars, hostOut, mcpStdin, sending, mainMsg, cycle,
                            childVars, hostInVars, mcp_process>>
             /\ pc' = [pc EXCEPT !["reader"] = "poll"]
             /\ lastDropped' = "miss"
      ]_vars

\* C14, its case reached: with entries in the table a message was dropped
\* as a miss and the reader is reading the next line.
C14_Witness ==
    /\ lastDropped = "miss"
    /\ pc["reader"] = "readline"
    /\ DOMAIN pending_requests = {1}
    /\ childPipe > 0

\* The reader passes over a line that is no JSON object.
BadLineStep ==
    pc["reader"] = "handle" /\ pc'["reader"] # "handle" /\ readerLine.kind # "object"

\* C15: a line of the child that is not valid JSON, or is a JSON value but
\* no object, is discarded: the table and the counter are unchanged, nothing
\* is sent to the host or the child, the main thread's loop is left alone,
\* and the reader is back at its loop condition, from where it reads and
\* handles the child's next line as long as the child runs.
C15_BadLineDiscarded ==
    [][/\ BadLineStep
          => /\ UNCHANGED <<tableVars, hostOut, mcpStdin, sending, mainMsg, cycle,
                            childVars, hostInVars, mcp_process, termSignalled,
                            exitStatus>>
             /\ pc' = [pc EXCEPT !["reader"] = "poll"]
             /\ lastDropped' = "bad"
       /\ (lastDropped = "bad" /\ pc["reader"] = "poll" /\ pc'["reader"] # "poll")
          => pc'["reader"] = (IF LoopCondition(mcp_process, childState)
                              THEN "readline" ELSE "done")
       /\ (lastDropped = "bad" /\ pc["reader"] = "readline" /\ pc'["reader"] = "handle")
          => /\ readerLine' \in ChildLines
             /\ childPipe' = childPipe - 1
      ]_vars

\* C15, its case reached: a line was discarded while the main thread was
\* answering the host, and the reader is about to read the child's next
\* line.
C15_Witness ==
    /\ lastDropped = "bad"
    /\ pc["reader"] = "readline"
    /\ childPipe > 0
    /\ childState = "running"
    /\ pc["main"] = "send_payload"

\* C16: a frame that the end of the host stream cuts short is never handed
\* to handle_chrome_message, whatever its bytes hold: the step that meets it
\* starts no dispatch and leaves the last message dispatched as it was.
C16_PartialFrameNeverDispatched ==
    [][(truncSeen' /\ ~truncSeen)
          => /\ pc'["main"] # "dispatch"
             /\ UNCHANGED <<mainMsg, cycle>>
      ]_vars

\* C17: for a host message other than a ping that carries both an id and a
\* response field: if some entry of pending_requests is stored under that
\* id, one such entry is removed and the response is sent on once; if none
\* is, pending_requests is unchanged and nothing is written to the host or
\* to the child.
C17_HostResponseResolved ==
    [][(/\ DispatchStep
        /\ mainMsg.action # "ping"
        /\ Truthy(mainMsg.id)
        /\ mainMsg.response # None
        /\ childState = "running")
          => IF MatchingIds(pending_requests, mainMsg.id) # {}
             THEN /\ \E k \in MatchingIds(pending_requests, mainMsg.id) :
                        /\ DOMAIN pending_requests' = DOMAIN pending_requests \ {k}
                        /\ \A j \in DOMAIN pending_requests' :
                               pending_requests'[j] = pending_requests[j]
                  /\ pc'["main"] = "send_len"
                  /\ sending'["main"] = Response(mainMsg.id, <<mainMsg.response>>)
                  /\ UNCHANGED <<hostOut, mcpStdin>>
             ELSE /\ pc'["main"] = "read"
                  /\ UNCHANGED <<pending_requests, sending, hostOut, mcpStdin>>
      ]_vars

\* C18: pending_requests is empty in every state of the relay, since neither
\* the initialize request nor a host action request is ever registered; so
\* the reader thread never sends anything to the host, not even the child's
\* answer to the initialize request, and all that is written to the host
\* comes from the main thread.
C18_TableAlwaysEmpty ==
    /\ pending_requests = EmptyTable
    /\ ~ReaderSending
    /\ sending["reader"] = NoReply
    /\ \A i \in 1..Len(hostOut) : hostOut[i].by = "main"
    /\ (pc["reader"] = "handle" /\ readerLine.kind = "object")
       => handle_mcp_message(readerLine, pending_requests).toChrome = <<>>

\* C18, its case reached: the initialize request is with the child, a Gmail
\* action of the host has been answered, and a message of the child has
\* just been dropped.
C18_Witness ==
    /\ mcpStdin = <<InitializeRequest(1)>>
    /\ Dispatched
    /\ cycle.msg.action \in RecognizedActions
    /\ Len(cycle.replies) = 1
    /\ lastDropped = "miss"
    /\ pc["reader"] = "poll"

\* A host-facing message with an "id" key: every reply has one (None when
\* the inbound message had none), the ready notice has not.
HasIdKey(msg) == msg.kind \in {"response", "error"}

\* The number of times event e is in the startup log.
Times(e) == Cardinality({i \in 1..Len(startup) : startup[i] = e})

\* C19: handle_chrome_message writes at most one message to the host for an
\* inbound message, with an "id" key holding the inbound message's id; the
\* one host-facing message without an "id" key is the ready notice, sent
\* once, at startup, before any host message is read.
C19_OneReplySameId ==
    /\ Len(cycle.replies) <= 1
    /\ \A i \in 1..Len(cycle.replies) :
           HasIdKey(cycle.replies[i]) /\ cycle.replies[i].id = cycle.msg.id
    /\ (cycle.active /\ MainSending)
       => /\ cycle.replies = <<>>
          /\ HasIdKey(sending["main"])
          /\ sending["main"].id = cycle.msg.id
    /\ (~cycle.active /\ MainSending)
       => /\ sending["main"] = ReadyNotice
          /\ startup \in {<<>>, <<"spawn">>, <<"spawn", "initialize">>}
    /\ ~MainSending => sending["main"] = NoReply
    /\ sending["reader"] = NoReply
    /\ \A i \in 1..Len(hostOut) : hostOut[i].msg = sending["main"]
    /\ Times("ready") <= 1
    /\ cycle.active => Times("ready") = 1

\* C19, its case reached: a ping without an id has been answered with
\* {"id": None, ...pong}, the ready notice having gone out at startup.
C19_Witness ==
    /\ Dispatched
    /\ cycle.msg.action = "ping"
    /\ cycle.msg.id = None
    /\ cycle.replies = <<Response(None, PongBody(mcp_process))>>
    /\ Times("ready") = 1

\* The place of a startup event in the order of run.
Rank(e) == CASE e = "spawn" -> 1 [] e = "initialize" -> 2 [] e = "ready" -> 3
             [] OTHER -> 4

\* The startup events have happened in the order of run, none of them twice,
\* and the host is read only once the ready notice is out.
StartupInOrder ==
    /\ \A i, j \in 1..Len(startup) : i < j => Rank(startup[i]) < Rank(startup[j])
    /\ Times("spawn") = (IF mcp_process # None THEN 1 ELSE 0)
    /\ Times("initialize") = Len(mcpStdin)
    /\ \A i \in 1..Len(mcpStdin) : mcpStdin[i] = InitializeRequest(1)
    /\ Times("initialize") = 1 => Times("spawn") = 1
    /\ Times("read") = 1 => Times("ready") = 1
    /\ pc["main"] \in {"read", "dispatch", "cleanup", "wait", "exited"}
       => Times("ready") = 1
    /\ (cycle.active \/ hostClosed \/ mainMsg # NoMessage) => Times("read") = 1

\* The main thread is past start_mcp_server.
Started == pc["main"] \notin {"spawn", "initialize"}

\* C20, as stated: at startup the child is spawned at most once, then exactly
\* one initialize request is written to it if the spawn succeeded (none
\* otherwise), then exactly one ready notice is sent, and only then is the
\* first host message read and dispatched.
C20_StartupOrder ==
    /\ StartupInOrder
    /\ Started => Times("initialize") = (IF mcp_process # None THEN 1 ELSE 0)

\* C20, amended: the same order, with at most one initialize request,
\* written only if the spawn succeeded and the child has not exited by the
\* time start_mcp_server sends it; exactly one if the child is still
\* running then.
C20_StartupOrderWhileChildRuns ==
    [][/\ StartupInOrder'
       /\ Times("initialize") <= 1
       /\ (pc["main"] = "initialize" /\ pc'["main"] # "initialize")
          => /\ pc'["main"] = "ready"
             /\ Len(mcpStdin') - Len(mcpStdin) =
                    (IF mcp_process # None /\ childState = "running" THEN 1 ELSE 0)
       /\ mcpStdin' # mcpStdin => pc["main"] = "initialize"
       /\ mcp_process' # mcp_process => (pc["main"] = "spawn" /\ mcp_process = None)
      ]_vars

\* C20, its case reached: spawn, initialize and ready notice have happened
\* in that order and the first host message is being dispatched.
C20_Witness ==
    /\ startup = <<"spawn", "initialize", "ready", "read">>
    /\ pc["main"] = "dispatch"
    /\ mcpStdin = <<InitializeRequest(1)>>
    /\ cycle.active

====
